---- MODULE Spec2Model ----
(***************************************************************************)
(* FRbox: the request pipeline of the face-recognition service.            *)
(*                                                                         *)
(* A request enters the middleware stack built in app/main.py, passes the  *)
(* dispatch methods of app/middleware.py from the outermost inwards, is    *)
(* answered by a route of app/api.py (or by /health of app/main.py) and    *)
(* its response travels back outwards.  Every dispatch method and every    *)
(* route function is an `async def` with no await other than call_next,    *)
(* so the code between two call_next boundaries is one atomic step of the  *)
(* event loop: one action here.                                            *)
(*                                                                         *)
(* The functions of app/face.py, app/similarity.py and app/config.py that  *)
(* the routes call are operators; SpecCalls applies each of them on its    *)
(* own to inputs drawn from bounded sets.                                  *)
(***************************************************************************)
EXTENDS Integers, Sequences, FiniteSets, TLC

(***************************************************************************)
(* Bounds of the model.                                                    *)
(***************************************************************************)
MaxRequests == 3        \* requests that arrive in one behaviour
MaxTicks == 4           \* readings the clock advances through
MaxRateLimit == 2       \* largest configured RATE_LIMIT_PER_MINUTE
MaxVecLen == 2          \* longest embedding given to verify_match
MaxDataLen == 5         \* longest string given to decode_base64_image
MaxSide == 5            \* largest width, height and max_width given to resize_image

(***************************************************************************)
(* Program constants.                                                      *)
(***************************************************************************)
WINDOW_SECONDS == 60            \* api.py: minute_ago = now - 60
KEY_PREFIX_LEN == 8             \* api.py: api_key[:8]
MAX_IMAGE_SIZE == 2097152       \* config.py: default of MAX_IMAGE_SIZE
MAX_IMAGE_WIDTH == 640          \* config.py: default of MAX_IMAGE_WIDTH
MAX_FACES == 1                  \* config.py: default of MAX_FACES
FACE_ENCODING_DIM == 128        \* face.py: np.zeros(128), 128-dim encodings

TickSteps == {20}               \* seconds between two clock readings
Slots == {1, 2}                 \* request tasks the event loop runs

(***************************************************************************)
(* Requests.  A header is absent (headers.get gives None) or has a value;  *)
(* strings that the code slices are sequences of characters.               *)
(***************************************************************************)
NoHeader == [present |-> FALSE, value |-> <<>>]
Header(v) == [present |-> TRUE, value |-> v]
KeyA == <<"s", "e", "c", "r", "e", "t", "0", "1", "A">>
KeyB == <<"s", "e", "c", "r", "e", "t", "0", "1", "B">>
\* a key that reads like the address of a client
KeyH == <<"h", "1">>
KeyHeaders == {NoHeader, Header(<<>>), Header(KeyA), Header(KeyB), Header(KeyH)}
Hosts == {<<"h", "1">>, <<"h", "2">>}
NoLength == -1
ContentLengths == {NoLength, MAX_IMAGE_SIZE, MAX_IMAGE_SIZE + 1}
Endpoints == {<<"GET", "/health">>, <<"POST", "/embedding">>,
              <<"POST", "/verify">>, <<"OPTIONS", "/embedding">>}

Requests ==
  {[method |-> e[1], path |-> e[2], key |-> k, host |-> h, cl |-> n] :
     e \in Endpoints, k \in KeyHeaders, h \in Hosts, n \in ContentLengths}

\* the requests of two clients, one known by its key and one by its address,
\* that call the rate-limited route over and over
RateLimitedRequests ==
  {q \in Requests : /\ q.method = "POST"
                    /\ q.path = "/embedding"
                    /\ q.cl = NoLength
                    /\ q.key \in {NoHeader, Header(KeyA)}
                    /\ q.host = <<"h", "1">>}

NoRequest == [method |-> "", path |-> "", key |-> NoHeader, host |-> <<>>, cl |-> NoLength]

\* Python truthiness of an optional string: None and "" are falsy
Truthy(h) == h.present /\ h.value # <<>>

Min(a, b) == IF a <= b THEN a ELSE b
Take(s, n) == SubSeq(s, 1, Min(n, Len(s)))

(***************************************************************************)
(* Settings (app/config.py): read once from the environment.               *)
(***************************************************************************)
ApiKeySets == {{}, {KeyA}}
EmbeddingDims == {FACE_ENCODING_DIM, 64}
SettingsSpace ==
  [API_KEYS : ApiKeySets,
   RATE_LIMIT_PER_MINUTE : 1..MaxRateLimit,
   EMBEDDING_DIM : EmbeddingDims]

(***************************************************************************)
(* Responses.                                                              *)
(***************************************************************************)
NoResponse ==
  [status |-> 0, headers |-> {}, detail |-> "", got |-> -1, embLen |-> -1, dim |-> -1]
JSONResponse(code, text) ==
  [status |-> code, headers |-> {}, detail |-> text, got |-> -1, embLen |-> -1, dim |-> -1]

VARIABLES
  settings,      \* the Settings instance
  clock,         \* what time.time() returns
  store,         \* _rate_limit_store: client id -> list of timestamps
  pc,            \* per task: where its request is in the stack
  req,           \* per task: the request
  resp,          \* per task: the response on its way out
  accessLog,     \* per task: what LoggingMiddleware wrote for the request
  steps,         \* per task: the pipeline steps executed for the request
  rl,            \* per task: what check_rate_limit saw and decided
  admitted,      \* history: client id -> timestamps of admitted requests
  arrived,       \* number of requests received so far
  body,          \* per task: the request body the route parsed
  call           \* a library function called on its own: arguments and result

vars == <<settings, clock, store, pc, req, resp, accessLog, steps, rl, admitted,
          arrived, body, call>>

(***************************************************************************)
(* app/api.py: the rate limiter.                                           *)
(***************************************************************************)
\* the identifier without the "key:" and "ip:" prefixes
GetClientIdNoPrefix(q) ==
  IF Truthy(q.key) THEN Take(q.key.value, KEY_PREFIX_LEN) ELSE q.host
get_client_id(q) ==
  IF Truthy(q.key)
    THEN <<"k", "e", "y", ":">> \o Take(q.key.value, KEY_PREFIX_LEN)
    ELSE <<"i", "p", ":">> \o q.host

ClientIds == {get_client_id(q) : q \in Requests}

\* the list comprehension that drops old timestamps
PruneInclusive(w, now) == SelectSeq(w, LAMBDA t : t >= now - WINDOW_SECONDS)
Prune(w, now) == SelectSeq(w, LAMBDA t : t > now - WINDOW_SECONDS)

\* the limit test
OverLimitOffByOne(w, limit) == Len(w) > limit
OverLimit(w, limit) == Len(w) >= limit

\* what the store holds for the client after the call, by outcome
RecordNothing(w, now, ok) == w
RecordAlways(w, now, ok) == Append(w, now)
Record(w, now, ok) == IF ok THEN Append(w, now) ELSE w

check_rate_limit(st, cid, now, limit) ==
  LET w == Prune(st[cid], now)
      ok == ~OverLimit(w, limit)
  IN  [ok |-> ok, store |-> [st EXCEPT ![cid] = Record(w, now, ok)]]

(***************************************************************************)
(* app/main.py: the middleware stack.  add_middleware puts the new         *)
(* middleware in front of those added before it, so the last one added is  *)
(* the outermost.  The stack is listed outermost first.                    *)
(***************************************************************************)
AddMiddlewareInnermost(stack, m) == Append(stack, m)
AddMiddleware(stack, m) == <<m>> \o stack

\* RequestSizeLimitMiddleware added before APIKeyMiddleware
MiddlewareStackKeyOutside ==
  AddMiddleware(
    AddMiddleware(
      AddMiddleware(
        AddMiddleware(<<>>, "SecurityHeaders"),
        "RequestSizeLimit"),
      "APIKey"),
    "Logging")

MiddlewareStack ==
  AddMiddleware(
    AddMiddleware(
      AddMiddleware(
        AddMiddleware(<<>>, "SecurityHeaders"),
        "APIKey"),
      "RequestSizeLimit"),
    "Logging")

\* the dispatch methods with code before call_next, and with code after it
RunsBeforeCallNext(m) == m \in {"Logging", "RequestSizeLimit", "APIKey"}
RunsAfterCallNext(m) == m \in {"Logging", "SecurityHeaders"}

At(stage, dir) == [at |-> stage, dir |-> dir]
Idle == At("idle", "")
Done == At("done", "")
Position(m) == CHOOSE i \in 1..Len(MiddlewareStack) : MiddlewareStack[i] = m
SetMin(S) == CHOOSE x \in S : \A y \in S : x <= y
SetMax(S) == CHOOSE x \in S : \A y \in S : x >= y

\* call_next from position i: the next dispatch inwards that does something
\* before its own call_next, else the router
Inwards(i) ==
  LET js == {j \in (i + 1)..Len(MiddlewareStack) : RunsBeforeCallNext(MiddlewareStack[j])}
  IN  IF js = {} THEN At("route", "in") ELSE At(MiddlewareStack[SetMin(js)], "in")

\* a response produced at position i: the next dispatch outwards that does
\* something after its call_next returns, else the client
Outwards(i) ==
  LET js == {j \in 1..(i - 1) : RunsAfterCallNext(MiddlewareStack[j])}
  IN  IF js = {} THEN Done ELSE At(MiddlewareStack[SetMax(js)], "out")

RouterPosition == Len(MiddlewareStack) + 1

NoCheck == [res |-> "none", seen |-> -1, at |-> -1, cid |-> <<>>]
NoCall == [fn |-> ""]
NoBody == [valid |-> FALSE]

\* the server after startup, before any request
InitServer ==
  /\ settings \in SettingsSpace
  /\ clock = 0
  /\ store = [c \in ClientIds |-> <<>>]
  /\ pc = [r \in Slots |-> Idle]
  /\ req = [r \in Slots |-> NoRequest]
  /\ resp = [r \in Slots |-> NoResponse]
  /\ accessLog = [r \in Slots |-> <<>>]
  /\ steps = [r \in Slots |-> {}]
  /\ rl = [r \in Slots |-> NoCheck]
  /\ admitted = [c \in ClientIds |-> <<>>]
  /\ arrived = 0
  /\ body = [r \in Slots |-> NoBody]

Init ==
  /\ InitServer
  /\ call = NoCall

\* time passes
Tick ==
  /\ \E d \in TickSteps :
       /\ clock + d <= MaxTicks * d
       /\ clock' = clock + d
  /\ UNCHANGED <<body, call, settings, store, pc, req, resp, accessLog, steps, rl, admitted, arrived>>

\* a client sends request q; the server hands it to the outermost dispatch
Arrive(r, q) ==
  /\ pc[r] = Idle
  /\ arrived < MaxRequests
  /\ arrived' = arrived + 1
  /\ req' = [req EXCEPT ![r] = q]
  /\ pc' = [pc EXCEPT ![r] = Inwards(0)]
  /\ UNCHANGED <<body, call, settings, clock, store, resp, accessLog, steps, rl, admitted>>

(***************************************************************************)
(* app/middleware.py                                                       *)
(***************************************************************************)
\* LoggingMiddleware.dispatch up to call_next
LoggingIn(r) ==
  /\ pc[r] = At("Logging", "in")
  /\ accessLog' = [accessLog EXCEPT ![r] = Append(@, <<req[r].method, req[r].path>>)]
  /\ pc' = [pc EXCEPT ![r] = Inwards(Position("Logging"))]
  /\ UNCHANGED <<body, call, settings, clock, store, req, resp, steps, rl, admitted, arrived>>

\* LoggingMiddleware.dispatch after call_next
LoggingOut(r) ==
  /\ pc[r] = At("Logging", "out")
  /\ accessLog' = [accessLog EXCEPT
                     ![r] = Append(@, <<req[r].method, req[r].path, resp[r].status>>)]
  /\ pc' = [pc EXCEPT ![r] = Outwards(Position("Logging"))]
  /\ UNCHANGED <<body, call, settings, clock, store, req, resp, steps, rl, admitted, arrived>>

TooLargeInclusive(cl) == cl # NoLength /\ cl >= MAX_IMAGE_SIZE
TooLarge(cl) == cl # NoLength /\ cl > MAX_IMAGE_SIZE

\* RequestSizeLimitMiddleware.dispatch
RequestSizeLimit(r) ==
  /\ pc[r] = At("RequestSizeLimit", "in")
  /\ IF TooLarge(req[r].cl)
       THEN /\ resp' = [resp EXCEPT ![r] = JSONResponse(413, "Request too large")]
            /\ pc' = [pc EXCEPT ![r] = Outwards(Position("RequestSizeLimit"))]
       ELSE /\ pc' = [pc EXCEPT ![r] = Inwards(Position("RequestSizeLimit"))]
            /\ UNCHANGED resp
  /\ UNCHANGED <<body, call, settings, clock, store, req, accessLog, steps, rl, admitted, arrived>>

ExemptPathsWithoutHealth == {"/docs", "/redoc", "/openapi.json"}
EXEMPT_PATHS == {"/health", "/docs", "/redoc", "/openapi.json"}

\* the decision of APIKeyMiddleware.dispatch: 0 is call_next
ApiKeyDecisionNoMembership(q, keys) ==
  IF q.path \in EXEMPT_PATHS THEN 0
  ELSE IF q.method = "OPTIONS" THEN 0
  ELSE IF keys = {} THEN 0
  ELSE IF ~Truthy(q.key) THEN 401
  ELSE 0
ApiKeyDecision(q, keys) ==
  IF q.path \in EXEMPT_PATHS THEN 0
  ELSE IF q.method = "OPTIONS" THEN 0
  ELSE IF keys = {} THEN 0
  ELSE IF ~Truthy(q.key) THEN 401
  ELSE IF q.key.value \notin keys THEN 403
  ELSE 0

\* APIKeyMiddleware.dispatch
APIKey(r) ==
  /\ pc[r] = At("APIKey", "in")
  /\ LET d == ApiKeyDecision(req[r], settings.API_KEYS)
     IN  IF d = 401
           THEN /\ resp' = [resp EXCEPT ![r] = JSONResponse(401, "Missing X-API-Key header")]
                /\ pc' = [pc EXCEPT ![r] = Outwards(Position("APIKey"))]
         ELSE IF d = 403
           THEN /\ resp' = [resp EXCEPT ![r] = JSONResponse(403, "Invalid API key")]
                /\ pc' = [pc EXCEPT ![r] = Outwards(Position("APIKey"))]
         ELSE /\ pc' = [pc EXCEPT ![r] = Inwards(Position("APIKey"))]
              /\ UNCHANGED resp
  /\ UNCHANGED <<body, call, settings, clock, store, req, accessLog, steps, rl, admitted, arrived>>

SecurityHeaders ==
  {"X-Content-Type-Options", "X-Frame-Options", "X-XSS-Protection",
   "Strict-Transport-Security", "Content-Security-Policy"}

\* SecurityHeadersMiddleware.dispatch after call_next
SecurityHeadersOut(r) ==
  /\ pc[r] = At("SecurityHeaders", "out")
  /\ resp' = [resp EXCEPT ![r].headers = @ \cup SecurityHeaders]
  /\ pc' = [pc EXCEPT ![r] = Outwards(Position("SecurityHeaders"))]
  /\ UNCHANGED <<body, call, settings, clock, store, req, accessLog, steps, rl, admitted, arrived>>

(***************************************************************************)
(* app/face.py and the request validator of app/api.py.  Strings are        *)
(* sequences of characters, byte streams are sequences of 0..255.  What    *)
(* the external libraries make of an image is part of the input: how       *)
(* Image.open ends, the shape of the decoded image, how many faces the     *)
(* detector finds, how many encodings the embedder returns.                *)
(***************************************************************************)
Raise(type, text) == [exc |-> type, msg |-> text]
Return == [exc |-> "", msg |-> ""]

Whitespace == {" "}
Base64Alphabet == {"A", "j", "9", "/"}

\* the position of a base64 digit in the alphabet A-Z a-z 0-9 + /
Base64Index(c) ==
  CASE c = "A" -> 0
    [] c = "j" -> 35
    [] c = "9" -> 61
    [] c = "/" -> 63

Contains(s, c) == \E i \in DOMAIN s : s[i] = c
\* s.split(c, 1)[1]
AfterFirst(s, c) ==
  LET i == CHOOSE k \in DOMAIN s : s[k] = c /\ \A j \in 1..(k - 1) : s[j] # c
  IN  SubSeq(s, i + 1, Len(s))
\* s.strip()
Strip(s) ==
  LET keep == {i \in DOMAIN s : s[i] \notin Whitespace}
  IN  IF keep = {} THEN <<>> ELSE SubSeq(s, SetMin(keep), SetMax(keep))
StartsWith(s, p) == Len(s) >= Len(p) /\ SubSeq(s, 1, Len(p)) = p

\* base64.b64decode(s, validate=True): the bytes, or binascii.Error
RECURSIVE Base64Bytes(_)
Base64Bytes(s) ==
  IF s = <<>> THEN <<>>
  ELSE LET n == ((Base64Index(s[1]) * 64 + Base64Index(s[2])) * 64
                   + Base64Index(s[3])) * 64 + Base64Index(s[4])
       IN  <<n \div 65536, (n \div 256) % 256, n % 256>>
             \o Base64Bytes(SubSeq(s, 5, Len(s)))

b64decode(s) ==
  IF \E i \in DOMAIN s : s[i] \notin Base64Alphabet
    THEN [exc |-> "binascii.Error", bytes |-> <<>>]
  ELSE IF Len(s) % 4 # 0
    THEN [exc |-> "binascii.Error", bytes |-> <<>>]
  ELSE [exc |-> "", bytes |-> Base64Bytes(s)]

IMAGE_MAGIC_BYTES ==
  {<<255, 216, 255>>,
   <<137, 80, 78, 71, 13, 10, 26, 10>>,
   <<71, 73, 70, 56>>,
   <<82, 73, 70, 70>>}

validate_image_format(bytes) ==
  IF \E m \in IMAGE_MAGIC_BYTES : StartsWith(bytes, m)
    THEN Return
    ELSE Raise("ValueError", "Unsupported image format")

\* how Image.open and np.array end on a stream with a known signature
PilOutcomes == {"", "UnidentifiedImageError"}

\* `if not image_data`, on the data as it is before .strip()
Empty(unprefixed) == unprefixed = <<>>

decode_base64_image(image_data, pil) ==
  LET unprefixed == IF Contains(image_data, ",")
                      THEN AfterFirst(image_data, ",") ELSE image_data
      decoded == b64decode(Strip(unprefixed))
      format == validate_image_format(decoded.bytes)
  IN  IF Empty(unprefixed) THEN Raise("ValueError", "Empty image data")
      ELSE IF decoded.exc # "" THEN Raise("ValueError", "Invalid base64 encoding")
      ELSE IF format.exc # "" THEN format
      ELSE IF pil # "" THEN Raise(pil, "cannot identify image file")
      ELSE Return

\* EmbeddingRequest: min_length=1 and validate_base64
validate_base64(v) ==
  LET data == IF Contains(v, ",") THEN AfterFirst(v, ",") ELSE v
  IN  /\ Len(v) >= 1
      /\ Strip(v) # <<>>
      /\ Strip(data) # <<>>
      /\ \A i \in DOMAIN Strip(data) :
           Strip(data)[i] \in Base64Alphabet \cup Whitespace \cup {"="}

Shape(w, h) == [width |-> w, height |-> h]

\* new_height = int(height * (max_width / width))
NewHeight(height, width, max_width) == (height * max_width) \div width

\* resize_image: the exception it ends with and the shape it returns;
\* Image.resize raises ValueError for a side below 1
resize_image(image, max_width) ==
  IF image.width <= max_width
    THEN [exc |-> "", msg |-> "", image |-> image]
  ELSE LET new_height == NewHeight(image.height, image.width, max_width)
       IN  IF new_height < 1
             THEN [exc |-> "ValueError", msg |-> "height and width must be > 0",
                   image |-> image]
             ELSE [exc |-> "", msg |-> "", image |-> Shape(max_width, new_height)]

\* more faces than allowed
TooManyFacesInclusive(n, max_faces) == n >= max_faces
TooManyFaces(n, max_faces) == n > max_faces

detect_face(faces) ==
  IF faces = 0 THEN Raise("ValueError", "No face detected in image")
  ELSE IF TooManyFaces(faces, MAX_FACES) THEN Raise("ValueError", "Multiple faces detected")
  ELSE Return

Zeros(n) == [i \in 1..n |-> 0]
Encoding(n) == [i \in 1..n |-> 1]

\* the vector extract_embedding returns
extract_embedding(b, dim) ==
  IF b.encodings = 0 THEN Zeros(FACE_ENCODING_DIM) ELSE Encoding(FACE_ENCODING_DIM)

\* request bodies of POST /embedding: the image string and what the
\* libraries make of it
Jpeg == <<"/", "9", "j", "/">>
Body(data, pil, shape, faces, encodings) ==
  [valid |-> validate_base64(data), data |-> data, pil |-> pil, shape |-> shape,
   faces |-> faces, encodings |-> encodings]
NoShape == Shape(0, 0)
EmbeddingBodies ==
  {Body(d, "", NoShape, 0, 0) :
     d \in {<<>>, <<"!">>, <<",", " ">>, <<"A", "A", "A">>, <<"A", "A", "A", "A">>,
            <<"/", "9", " ", "j", "/">>}}
  \cup {Body(Jpeg, "UnidentifiedImageError", NoShape, 0, 0)}
  \cup {Body(Jpeg, "", Shape(MAX_IMAGE_WIDTH * 2 + 1, 1), 0, 0)}
  \cup {Body(<<",">> \o Jpeg, "", Shape(MAX_IMAGE_WIDTH, 480), f, 0) :
          f \in 0..(MAX_FACES + 1)}
  \cup {Body(Jpeg, "", Shape(MAX_IMAGE_WIDTH * 2, 960), MAX_FACES, 1)}

SingleFaceBodies == {b \in EmbeddingBodies : b.valid /\ b.encodings = 1}

(***************************************************************************)
(* app/api.py: the routes.                                                 *)
(***************************************************************************)
HTTPException(code, text) == JSONResponse(code, text)

\* the except clauses of extract_embedding_endpoint
ExceptClauses(e) ==
  IF e.exc = "ValueError"
    THEN HTTPException(400, e.msg)
    ELSE HTTPException(500, "Failed to process image")

\* the try block of extract_embedding_endpoint: the response and the steps run
ExtractResult(b, dim) ==
  LET d == decode_base64_image(b.data, b.pil)
      s == resize_image(b.shape, MAX_IMAGE_WIDTH)
      f == detect_face(b.faces)
      e == extract_embedding(b, dim)
  IN  IF d.exc # ""
        THEN [resp |-> ExceptClauses(d), steps |-> {"decode"}]
      ELSE IF s.exc # ""
        THEN [resp |-> ExceptClauses(s), steps |-> {"decode", "resize"}]
      ELSE IF f.exc # ""
        THEN [resp |-> ExceptClauses(f), steps |-> {"decode", "resize", "detect"}]
      ELSE [resp |-> [status |-> 200, headers |-> {}, detail |-> "", got |-> -1,
                      embLen |-> Len(e), dim |-> Len(e)],
            steps |-> {"decode", "resize", "detect", "embed"}]

\* the number of timestamps of client c newer than now - 60, read off the store
WindowCount(st, c, now) ==
  Cardinality({i \in DOMAIN st[c] : st[c][i] > now - WINDOW_SECONDS})

\* "Apply rate limiting" at the head of both routes, then `result`
RateLimited(r, result) ==
  LET cid == get_client_id(req[r])
      chk == check_rate_limit(store, cid, clock, settings.RATE_LIMIT_PER_MINUTE)
  IN  /\ store' = chk.store
      /\ rl' = [rl EXCEPT ![r] = [res |-> IF chk.ok THEN "admitted" ELSE "rejected",
                                   seen |-> WindowCount(store, cid, clock),
                                   at |-> clock, cid |-> cid]]
      /\ IF chk.ok
           THEN /\ admitted' = [admitted EXCEPT ![cid] = Append(@, clock)]
                /\ resp' = [resp EXCEPT ![r] = result.resp]
                /\ steps' = [steps EXCEPT ![r] = {"handler"} \cup result.steps]
           ELSE /\ resp' = [resp EXCEPT ![r] = HTTPException(429, "Rate limit exceeded")]
                /\ steps' = [steps EXCEPT ![r] = {"handler"}]
                /\ UNCHANGED admitted

\* the request body fails the pydantic model: FastAPI answers 422 itself
Unprocessable(r) ==
  /\ resp' = [resp EXCEPT ![r] = JSONResponse(422, "validation")]
  /\ UNCHANGED <<store, rl, admitted, steps>>

\* POST /embedding
extract_embedding_endpoint(r, b) ==
  /\ pc[r] = At("route", "in")
  /\ req[r].method = "POST" /\ req[r].path = "/embedding"
  /\ IF b.valid
       THEN RateLimited(r, ExtractResult(b, settings.EMBEDDING_DIM))
       ELSE Unprocessable(r)
  /\ body' = [body EXCEPT ![r] = b]
  /\ pc' = [pc EXCEPT ![r] = Outwards(RouterPosition)]
  /\ UNCHANGED <<call, settings, clock, req, accessLog, arrived>>

VerifyBodies ==
  {[valid |-> FALSE, lenA |-> 0, lenB |-> 0]}
  \cup {[valid |-> TRUE, lenA |-> a, lenB |-> b] : a \in EmbeddingDims, b \in EmbeddingDims}

\* len(request.embedding_x) != settings.EMBEDDING_DIM
DimensionMismatchShorter(n, dim) == n < dim
DimensionMismatch(n, dim) == n # dim

\* "embedding_x must have {EMBEDDING_DIM} dimensions, got {len}"
DimensionError(text, n) ==
  [status |-> 400, headers |-> {}, detail |-> text, got |-> n, embLen |-> -1, dim |-> -1]

\* the try block of verify_face
VerifyResult(b, dim) ==
  IF DimensionMismatch(b.lenA, dim)
    THEN [resp |-> DimensionError("embedding_a must have EMBEDDING_DIM dimensions", b.lenA),
          steps |-> {}]
  ELSE IF DimensionMismatch(b.lenB, dim)
    THEN [resp |-> DimensionError("embedding_b must have EMBEDDING_DIM dimensions", b.lenB),
          steps |-> {}]
  ELSE [resp |-> JSONResponse(200, ""), steps |-> {"similarity"}]

\* POST /verify
verify_face(r, b) ==
  /\ pc[r] = At("route", "in")
  /\ req[r].method = "POST" /\ req[r].path = "/verify"
  /\ IF b.valid
       THEN RateLimited(r, VerifyResult(b, settings.EMBEDDING_DIM))
       ELSE Unprocessable(r)
  /\ body' = [body EXCEPT ![r] = b]
  /\ pc' = [pc EXCEPT ![r] = Outwards(RouterPosition)]
  /\ UNCHANGED <<call, settings, clock, req, accessLog, arrived>>

\* GET /health (app/main.py)
health_check(r) ==
  /\ pc[r] = At("route", "in")
  /\ req[r].method = "GET" /\ req[r].path = "/health"
  /\ resp' = [resp EXCEPT ![r] = JSONResponse(200, "healthy")]
  /\ steps' = [steps EXCEPT ![r] = {"handler"}]
  /\ pc' = [pc EXCEPT ![r] = Outwards(RouterPosition)]
  /\ UNCHANGED <<body, call, settings, clock, store, req, accessLog, rl, admitted, arrived>>

\* an OPTIONS request: CORSMiddleware answers a preflight itself, the router
\* answers any other with 405
Options(r, preflight) ==
  /\ pc[r] = At("route", "in")
  /\ req[r].method = "OPTIONS"
  /\ resp' = [resp EXCEPT ![r] = IF preflight THEN JSONResponse(200, "OK")
                                               ELSE JSONResponse(405, "Method Not Allowed")]
  /\ pc' = [pc EXCEPT ![r] = Outwards(RouterPosition)]
  /\ UNCHANGED <<body, call, settings, clock, store, req, accessLog, steps, rl, admitted, arrived>>

\* the response leaves the server; the task ends
Respond(r) ==
  /\ pc[r] = Done
  /\ pc' = [pc EXCEPT ![r] = Idle]
  /\ req' = [req EXCEPT ![r] = NoRequest]
  /\ resp' = [resp EXCEPT ![r] = NoResponse]
  /\ accessLog' = [accessLog EXCEPT ![r] = <<>>]
  /\ steps' = [steps EXCEPT ![r] = {}]
  /\ rl' = [rl EXCEPT ![r] = NoCheck]
  /\ body' = [body EXCEPT ![r] = NoBody]
  /\ UNCHANGED <<call, settings, clock, store, admitted, arrived>>

(***************************************************************************)
(* Spec: one request at a time, of every shape, at one clock reading.      *)
(***************************************************************************)
Next ==
  \E r \in {1} :
    \/ \E q \in Requests : Arrive(r, q)
    \/ LoggingIn(r)
    \/ RequestSizeLimit(r)
    \/ APIKey(r)
    \/ \E b \in EmbeddingBodies : extract_embedding_endpoint(r, b)
    \/ \E b \in VerifyBodies : verify_face(r, b)
    \/ health_check(r)
    \/ \E p \in BOOLEAN : Options(r, p)
    \/ SecurityHeadersOut(r)
    \/ LoggingOut(r)
    \/ Respond(r)

Spec == Init /\ [][Next]_vars

(***************************************************************************)
(* SpecRate: two concurrent tasks serving two clients while time passes,    *)
(* with no API keys configured.                                            *)
(***************************************************************************)
InitRate ==
  /\ Init
  /\ settings.API_KEYS = {}
  /\ settings.EMBEDDING_DIM = FACE_ENCODING_DIM

NextRate ==
  \/ Tick
  \/ \E r \in Slots :
       \/ \E q \in RateLimitedRequests : Arrive(r, q)
       \/ LoggingIn(r)
       \/ RequestSizeLimit(r)
       \/ APIKey(r)
       \/ \E b \in SingleFaceBodies : extract_embedding_endpoint(r, b)
       \/ SecurityHeadersOut(r)
       \/ LoggingOut(r)
       \/ Respond(r)

SpecRate == InitRate /\ [][NextRate]_vars

(***************************************************************************)
(* SpecGuard: one task, API keys configured, the clock advancing: requests *)
(* to the rate-limited route with and without a valid key, with and        *)
(* without an oversized body.                                              *)
(***************************************************************************)
GuardedRequests ==
  {q \in Requests : /\ q.method = "POST"
                    /\ q.path = "/embedding"
                    /\ q.cl \in {NoLength, MAX_IMAGE_SIZE + 1}
                    /\ q.key \in {NoHeader, Header(KeyA), Header(KeyB)}
                    /\ q.host = <<"h", "1">>}

InitGuard ==
  /\ Init
  /\ settings.API_KEYS = {KeyA}
  /\ settings.EMBEDDING_DIM = FACE_ENCODING_DIM

NextGuard ==
  \/ Tick
  \/ \E r \in {1} :
       \/ \E q \in GuardedRequests : Arrive(r, q)
       \/ LoggingIn(r)
       \/ RequestSizeLimit(r)
       \/ APIKey(r)
       \/ \E b \in SingleFaceBodies : extract_embedding_endpoint(r, b)
       \/ SecurityHeadersOut(r)
       \/ LoggingOut(r)
       \/ Respond(r)

SpecGuard == InitGuard /\ [][NextGuard]_vars

(***************************************************************************)
(* SpecIsolation: one task, no API keys configured, the clock advancing:   *)
(* a client known by its address and a client whose key reads like that    *)
(* address call the rate-limited route in turn.                            *)
(***************************************************************************)
IsolationRequests ==
  {q \in Requests : /\ q.method = "POST"
                    /\ q.path = "/embedding"
                    /\ q.cl = NoLength
                    /\ q.key \in {NoHeader, Header(KeyH)}
                    /\ q.host = <<"h", "1">>}

NextIsolation ==
  \/ Tick
  \/ \E r \in {1} :
       \/ \E q \in IsolationRequests : Arrive(r, q)
       \/ LoggingIn(r)
       \/ RequestSizeLimit(r)
       \/ APIKey(r)
       \/ \E b \in SingleFaceBodies : extract_embedding_endpoint(r, b)
       \/ SecurityHeadersOut(r)
       \/ LoggingOut(r)
       \/ Respond(r)

SpecIsolation == InitRate /\ [][NextIsolation]_vars

(***************************************************************************)
(* SpecFailed: two concurrent tasks serving one client, no API keys        *)
(* configured, the clock advancing: images and embeddings the handlers     *)
(* answer with 200, with 400 and with 500.                                 *)
(***************************************************************************)
OneClientRequests ==
  {q \in Requests : /\ q.method = "POST"
                    /\ q.path \in {"/embedding", "/verify"}
                    /\ q.cl = NoLength
                    /\ q.key = NoHeader
                    /\ q.host = <<"h", "1">>}

\* an image with one face, an image without a face, a corrupt image
MixedBodies ==
  {b \in EmbeddingBodies :
     /\ b.valid
     /\ \/ b.encodings = 1
        \/ b.pil # ""
        \/ (b.shape = Shape(MAX_IMAGE_WIDTH, 480) /\ b.faces = 0)}

\* two embeddings of the configured length, and a longer or shorter first one
MixedVerifyBodies == {b \in VerifyBodies : b.valid /\ b.lenB = FACE_ENCODING_DIM}

NextFailed ==
  \/ Tick
  \/ \E r \in Slots :
       \/ \E q \in OneClientRequests : Arrive(r, q)
       \/ LoggingIn(r)
       \/ RequestSizeLimit(r)
       \/ APIKey(r)
       \/ \E b \in MixedBodies : extract_embedding_endpoint(r, b)
       \/ \E b \in MixedVerifyBodies : verify_face(r, b)
       \/ SecurityHeadersOut(r)
       \/ LoggingOut(r)
       \/ Respond(r)

SpecFailed == InitRate /\ [][NextFailed]_vars

(***************************************************************************)
(* app/similarity.py.  Embeddings are vectors of integers.  A real number  *)
(* x that the code holds as a float is the pair [num, den2] with           *)
(* x = num / sqrt(den2), so that the division by the norm is exact; the    *)
(* rounding of float32 is left out.  Thresholds are in hundredths.         *)
(***************************************************************************)
RECURSIVE Dot(_, _)
Dot(a, b) == IF a = <<>> THEN 0 ELSE a[1] * b[1] + Dot(Tail(a), Tail(b))

\* np.linalg.norm(embedding), squared
NormSq(v) == Dot(v, v)

\* the embedding divided by 1, whatever its norm
NormalizeUnchanged(v) == [vec |-> v, norm2 |-> 1]
\* the vector vec / sqrt(norm2)
normalize_embedding(v) ==
  IF NormSq(v) = 0 THEN [vec |-> v, norm2 |-> 1] ELSE [vec |-> v, norm2 |-> NormSq(v)]

cosine_similarity(a, b) ==
  LET a_normalized == normalize_embedding(a)
      b_normalized == normalize_embedding(b)
  IN  [num |-> Dot(a_normalized.vec, b_normalized.vec),
       den2 |-> a_normalized.norm2 * b_normalized.norm2]

\* x >= threshold / 100, for a threshold that is not negative
AtLeast(x, threshold) ==
  x.num >= 0 /\ x.num * x.num * 10000 >= threshold * threshold * x.den2
IsOne(x) == x.num > 0 /\ x.num * x.num = x.den2
IsZero(x) == x.num = 0

verify_match(a, b, threshold) ==
  LET confidence == cosine_similarity(a, b)
  IN  [is_match |-> AtLeast(confidence, threshold), confidence |-> confidence]

(***************************************************************************)
(* app/config.py: Settings() reads the environment.  A variable is unset   *)
(* or holds a string; int() and float() parse it or raise ValueError,      *)
(* which ends the startup.  A float is held in hundredths.                 *)
(***************************************************************************)
Unset == [present |-> FALSE, value |-> <<>>]
Set(v) == [present |-> TRUE, value |-> v]
\* os.getenv(name, default)
getenv(env, name, default) == IF env[name].present THEN env[name].value ELSE default

Digits == <<"0", "1", "2", "3", "4", "5", "6", "7", "8", "9">>
IsDigit(c) == \E i \in DOMAIN Digits : Digits[i] = c
DigitValue(c) == (CHOOSE i \in DOMAIN Digits : Digits[i] = c) - 1
AllDigits(s) == \A i \in DOMAIN s : IsDigit(s[i])
RECURSIVE Decimal(_)
Decimal(s) ==
  IF s = <<>> THEN 0
  ELSE Decimal(SubSeq(s, 1, Len(s) - 1)) * 10 + DigitValue(s[Len(s)])

Unsigned(s) == IF s # <<>> /\ s[1] = "-" THEN Tail(s) ELSE s
Signed(s, n) == IF s # <<>> /\ s[1] = "-" THEN -n ELSE n

\* int(s)
ParseInt(s) ==
  IF Unsigned(s) # <<>> /\ AllDigits(Unsigned(s))
    THEN [exc |-> "", value |-> Signed(s, Decimal(Unsigned(s)))]
    ELSE [exc |-> "ValueError", value |-> 0]

\* s.split(c, 1)[0]
BeforeFirst(s, c) ==
  LET i == CHOOSE k \in DOMAIN s : s[k] = c /\ \A j \in 1..(k - 1) : s[j] # c
  IN  SubSeq(s, 1, i - 1)

\* float(s), in hundredths, for decimals of at most two places
ParseFloat(s) ==
  LET u == Unsigned(s)
      whole == IF Contains(u, ".") THEN BeforeFirst(u, ".") ELSE u
      frac == IF Contains(u, ".") THEN AfterFirst(u, ".") ELSE <<>>
      hundredths == Decimal(whole) * 100
                      + (IF Len(frac) = 1 THEN Decimal(frac) * 10 ELSE Decimal(frac))
  IN  IF /\ AllDigits(whole) /\ AllDigits(frac)
         /\ (whole # <<>> \/ frac # <<>>)
         /\ Len(frac) <= 2
        THEN [exc |-> "", value |-> Signed(s, hundredths)]
        ELSE [exc |-> "ValueError", value |-> 0]

\* [k.strip() for k in s.split(",") if k.strip()]
RECURSIVE SplitStrip(_)
SplitStrip(s) ==
  LET head == Strip(IF Contains(s, ",") THEN BeforeFirst(s, ",") ELSE s)
      rest == IF Contains(s, ",") THEN SplitStrip(AfterFirst(s, ",")) ELSE <<>>
  IN  IF head = <<>> THEN rest ELSE <<head>> \o rest

\* Settings.__init__: the instance, or the ValueError that ends the startup
Settings(env) ==
  LET size == ParseInt(getenv(env, "MAX_IMAGE_SIZE", <<"2", "0", "9", "7", "1", "5", "2">>))
      width == ParseInt(getenv(env, "MAX_IMAGE_WIDTH", <<"6", "4", "0">>))
      faces == ParseInt(getenv(env, "MAX_FACES", <<"1">>))
      dim == ParseInt(getenv(env, "EMBEDDING_DIM", <<"1", "2", "8">>))
      threshold == ParseFloat(getenv(env, "SIMILARITY_THRESHOLD", <<"0", ".", "8", "5">>))
      rate == ParseInt(getenv(env, "RATE_LIMIT_PER_MINUTE", <<"6", "0">>))
  IN  IF \E p \in {size, width, faces, dim, threshold, rate} : p.exc # ""
        THEN [exc |-> "ValueError"]
        ELSE [exc |-> "",
              MAX_IMAGE_SIZE |-> size.value,
              MAX_IMAGE_WIDTH |-> width.value,
              MAX_FACES |-> faces.value,
              EMBEDDING_DIM |-> dim.value,
              SIMILARITY_THRESHOLD |-> threshold.value,
              API_KEYS |-> SplitStrip(getenv(env, "API_KEYS", <<>>)),
              ALLOWED_ORIGINS |-> SplitStrip(getenv(env, "ALLOWED_ORIGINS", <<>>)),
              RATE_LIMIT_PER_MINUTE |-> rate.value]

SizeEnv == {Unset, Set(<<"0">>)}
IntEnv == {Unset, Set(<<"2">>), Set(<<"0">>), Set(<<"-", "1">>), Set(<<"x">>)}
FloatEnv == {Unset, Set(<<"1">>), Set(<<"1", ".", "5">>), Set(<<"-", "0", ".", "1">>)}
ListEnv == {Unset, Set(<<"a", ",", " ", ",", " ", "b">>)}
Environments ==
  [MAX_IMAGE_SIZE : SizeEnv, MAX_IMAGE_WIDTH : SizeEnv, MAX_FACES : IntEnv,
   EMBEDDING_DIM : IntEnv, SIMILARITY_THRESHOLD : FloatEnv, API_KEYS : ListEnv,
   ALLOWED_ORIGINS : {Unset}, RATE_LIMIT_PER_MINUTE : IntEnv]

(***************************************************************************)
(* SpecCalls: the library functions called on their own, each on one       *)
(* input drawn from a bounded set, with the server idle.                   *)
(***************************************************************************)
Pending == [exc |-> "pending"]
Call(fn, args) == [fn |-> fn, args |-> args, done |-> FALSE, out |-> Pending]
Returned(fn) == call.fn = fn /\ call.done

Components == {-1, 0, 1}
Vectors(n) == [1..n -> Components]
Thresholds == {0, 90, 100}
\* verify_match is about to be called on two embeddings of one length
VerifyCalled ==
  \E n \in 1..MaxVecLen : \E a \in Vectors(n) : \E b \in Vectors(n) : \E t \in Thresholds :
    call = Call("verify_match", [a |-> a, b |-> b, threshold |-> t])

\* strings given to decode_base64_image
DecodeChars == {",", " ", "/", "9", "j"}
DecodeCalled ==
  \E n \in 0..MaxDataLen : \E d \in [1..n -> DecodeChars] : \E p \in PilOutcomes :
    call = Call("decode_base64_image", [image_data |-> d, pil |-> p])

ApplyVerify ==
  /\ call.fn = "verify_match" /\ ~call.done
  /\ call' = [call EXCEPT !.done = TRUE,
                          !.out = verify_match(call.args.a, call.args.b, call.args.threshold)]
  /\ UNCHANGED <<settings, clock, store, pc, req, resp, accessLog, steps, rl, admitted,
                 arrived, body>>

ApplyDecode ==
  /\ call.fn = "decode_base64_image" /\ ~call.done
  /\ call' = [call EXCEPT !.done = TRUE,
                          !.out = decode_base64_image(call.args.image_data, call.args.pil)]
  /\ UNCHANGED <<settings, clock, store, pc, req, resp, accessLog, steps, rl, admitted,
                 arrived, body>>

\* images given to resize_image, by shape
ResizeCalled ==
  \E w \in 1..MaxSide : \E h \in 1..MaxSide : \E m \in 1..MaxSide :
    call = Call("resize_image", [image |-> Shape(w, h), max_width |-> m])

ApplyResize ==
  /\ call.fn = "resize_image" /\ ~call.done
  /\ call' = [call EXCEPT !.done = TRUE,
                          !.out = resize_image(call.args.image, call.args.max_width)]
  /\ UNCHANGED <<settings, clock, store, pc, req, resp, accessLog, steps, rl, admitted,
                 arrived, body>>

\* startup: Settings() is about to be constructed from the environment
SettingsCalled == \E e \in Environments : call = Call("Settings", [env |-> e])

\* get_settings(): the first call constructs the instance
LoadSettings ==
  /\ call.fn = "Settings" /\ ~call.done
  /\ call' = [call EXCEPT !.done = TRUE, !.out = Settings(call.args.env)]
  /\ UNCHANGED <<settings, clock, store, pc, req, resp, accessLog, steps, rl, admitted,
                 arrived, body>>

InitCalls ==
  /\ InitServer
  /\ settings.API_KEYS = {}
  /\ settings.RATE_LIMIT_PER_MINUTE = 1
  /\ settings.EMBEDDING_DIM = FACE_ENCODING_DIM
  /\ \/ VerifyCalled
     \/ DecodeCalled
     \/ ResizeCalled
     \/ SettingsCalled

NextCalls ==
  \/ ApplyVerify
  \/ ApplyDecode
  \/ ApplyResize
  \/ LoadSettings

SpecCalls == InitCalls /\ [][NextCalls]_vars

(***************************************************************************)
(* Properties of the rate limiter (SpecRate).                              *)
(***************************************************************************)
Limit == settings.RATE_LIMIT_PER_MINUTE
Occurrences(w, t) == Len(SelectSeq(w, LAMBDA x : x = t))
\* admitted requests of client c stamped in the 60 seconds that end at t
AdmittedInWindow(c, t) ==
  Len(SelectSeq(admitted[c], LAMBDA x : x > t - WINDOW_SECONDS /\ x <= t))
Checked(r) == rl[r].res # "none"

\* C1: a check for identifier c at time now admits the request, and records
\* now, exactly when fewer than RATE_LIMIT_PER_MINUTE timestamps of c are
\* newer than now - 60; so at every time no identifier has more than
\* RATE_LIMIT_PER_MINUTE admitted requests in the trailing 60-second window.
C1_AdmissionRuleAndCap ==
  /\ \A r \in Slots :
       Checked(r) =>
         /\ rl[r].res = "admitted" <=> rl[r].seen < Limit
         /\ resp[r].status = 429 <=> rl[r].res = "rejected"
         /\ (rl[r].res = "admitted" /\ clock - rl[r].at < WINDOW_SECONDS)
              => Occurrences(store[rl[r].cid], rl[r].at) >= 1
  /\ \A c \in ClientIds : AdmittedInWindow(c, clock) <= Limit

C1_Witness ==
  \E r \in Slots :
    /\ pc[r] = Done
    /\ rl[r].res = "rejected"
    /\ resp[r].status = 429
    /\ rl[r].seen = Limit
    /\ AdmittedInWindow(rl[r].cid, clock) = Limit

\* C2: two requests of one identifier handled concurrently, at the same
\* clock reading, never both pass the count check on the same count: when
\* one slot remains at most one of them is admitted.
C2_CheckThenRecordAtomic ==
  \A r1 \in Slots : \A r2 \in Slots \ {r1} :
    (/\ rl[r1].res = "admitted" /\ rl[r2].res = "admitted"
     /\ rl[r1].cid = rl[r2].cid
     /\ rl[r1].at = rl[r2].at)
    => rl[r1].seen # rl[r2].seen

C2_Witness ==
  \E r1 \in Slots : \E r2 \in Slots \ {r1} :
    /\ Checked(r1) /\ Checked(r2)
    /\ pc[r1].at # "done" /\ pc[r2].at # "done"
    /\ rl[r1].cid = rl[r2].cid
    /\ rl[r1].at = rl[r2].at
    /\ rl[r1].res = "admitted" /\ rl[r1].seen = Limit - 1
    /\ rl[r2].res = "rejected"

\* C7: the 429 comes only after RATE_LIMIT_PER_MINUTE admissions of the
\* identifier inside the 60 seconds before it; a rejected attempt leaves no
\* timestamp in the store; and a request made more than 60 seconds after the
\* identifier's most recent admitted request is admitted.
C7_RateLimitRecovery ==
  /\ \A r \in Slots :
       Checked(r) =>
         LET c == rl[r].cid
             t == rl[r].at
             earlier == {i \in DOMAIN admitted[c] : admitted[c][i] <= t}
         IN  /\ rl[r].res = "rejected" => AdmittedInWindow(c, t) >= Limit
             /\ rl[r].res = "admitted" => AdmittedInWindow(c, t) <= Limit
             /\ (\A i \in earlier : t - admitted[c][i] > WINDOW_SECONDS)
                  => rl[r].res = "admitted"
  /\ \A c \in ClientIds : \A i \in DOMAIN store[c] :
       Occurrences(store[c], store[c][i]) <= Occurrences(admitted[c], store[c][i])

C7_Witness ==
  \E r1 \in Slots : \E r2 \in Slots \ {r1} :
    /\ rl[r1].res = "rejected"
    /\ rl[r2].res = "admitted"
    /\ rl[r1].cid = rl[r2].cid
    /\ rl[r2].at - rl[r1].at > 0
    /\ Len(admitted[rl[r2].cid]) = Limit + 1
    /\ \A i \in 1..Limit : rl[r2].at - admitted[rl[r2].cid][i] > WINDOW_SECONDS

(***************************************************************************)
(* Properties of the ingress stages (Spec).                                *)
(***************************************************************************)
Oversized(q) == q.cl # NoLength /\ q.cl > MAX_IMAGE_SIZE
\* a request the API-key stage has to decide
NeedsKey(q) ==
  /\ settings.API_KEYS # {}
  /\ q.path \in {"/embedding", "/verify"}
  /\ q.method # "OPTIONS"
KeyMissing(q) == ~q.key.present \/ q.key.value = <<>>
KeyUnknown(q) == ~KeyMissing(q) /\ q.key.value \notin settings.API_KEYS
Answered(r) == pc[r] = Done

\* C3 (as the spec states it): every response carries the fixed
\* security-header set, whatever stage produced it.
C3_SecurityHeadersOnEveryResponse ==
  \A r \in Slots :
    Answered(r) =>
      {"X-Content-Type-Options", "X-Frame-Options",
       "Strict-Transport-Security", "Content-Security-Policy"} \subseteq resp[r].headers

\* C4 (as the spec states it): with API keys configured, every request to a
\* non-exempt path that is no OPTIONS request gets 401 without a key and 403
\* with an unknown key; only a configured key reaches a route handler.
C4_Original ==
  \A r \in Slots :
    (Answered(r) /\ NeedsKey(req[r])) =>
      /\ KeyMissing(req[r]) => resp[r].status = 401
      /\ KeyUnknown(req[r]) => resp[r].status = 403
      /\ resp[r].status \in {401, 403} => steps[r] = {}
      /\ steps[r] # {} => req[r].key.value \in settings.API_KEYS

\* C4 (amended): the same for every such request whose declared
\* Content-Length does not exceed MAX_IMAGE_SIZE, and a request with a
\* configured key is never answered 401 or 403.
C4_ApiKeyDecides ==
  \A r \in Slots :
    NeedsKey(req[r]) =>
      /\ (Answered(r) /\ ~Oversized(req[r])) =>
            /\ KeyMissing(req[r]) => resp[r].status = 401
            /\ KeyUnknown(req[r]) => resp[r].status = 403
            /\ req[r].key.value \in settings.API_KEYS => resp[r].status \notin {401, 403}
      /\ resp[r].status \in {401, 403} => (steps[r] = {} /\ pc[r].at # "route")
      /\ (steps[r] # {} \/ pc[r].at = "route") => req[r].key.value \in settings.API_KEYS

C4_Witness ==
  \E r \in Slots :
    /\ Answered(r) /\ NeedsKey(req[r])
    /\ req[r].cl = MAX_IMAGE_SIZE
    /\ KeyUnknown(req[r])
    /\ resp[r].status = 403

\* C5 (as the spec states it): API-key auth comes before the request-size
\* guard, so an oversized request without a valid key gets 401 or 403.
C5_Original ==
  \A r \in Slots :
    (Answered(r) /\ NeedsKey(req[r]) /\ Oversized(req[r])) =>
      /\ KeyMissing(req[r]) => resp[r].status = 401
      /\ KeyUnknown(req[r]) => resp[r].status = 403

\* C5 (amended): the stages short-circuit in the order request-size guard,
\* API-key auth, rate limiting: an oversized request gets 413 whatever its
\* key, a request of acceptable size with a missing or unknown key gets 401
\* or 403, and neither reaches the rate limiter.
C5_StageOrder ==
  \A r \in Slots :
    Answered(r) =>
      /\ Oversized(req[r]) => (resp[r].status = 413 /\ ~Checked(r))
      /\ (~Oversized(req[r]) /\ NeedsKey(req[r]) /\ KeyMissing(req[r]))
           => (resp[r].status = 401 /\ ~Checked(r))
      /\ (~Oversized(req[r]) /\ NeedsKey(req[r]) /\ KeyUnknown(req[r]))
           => (resp[r].status = 403 /\ ~Checked(r))
      /\ resp[r].status = 429 => Checked(r)

C5_Witness ==
  \E r \in Slots :
    /\ Answered(r) /\ NeedsKey(req[r])
    /\ Oversized(req[r]) /\ KeyMissing(req[r])
    /\ resp[r].status = 413

\* C6: a request whose declared Content-Length exceeds MAX_IMAGE_SIZE is
\* answered 413 and reaches no route handler (no decode, detection or
\* embedding step runs for it); a declared length of exactly MAX_IMAGE_SIZE
\* is not rejected by the size guard.
C6_OversizedNeverHandled ==
  \A r \in Slots :
    /\ (req[r].cl # NoLength /\ req[r].cl > MAX_IMAGE_SIZE) =>
         /\ steps[r] = {}
         /\ pc[r].at # "route"
         /\ Answered(r) => resp[r].status = 413
    /\ req[r].cl = MAX_IMAGE_SIZE => resp[r].status # 413

C6_Witness ==
  \E r \in Slots :
    /\ Answered(r)
    /\ req[r].cl = MAX_IMAGE_SIZE + 1
    /\ req[r].path = "/embedding" /\ req[r].method = "POST"
    /\ req[r].key.value \in settings.API_KEYS
    /\ resp[r].status = 413

IsHealth(q) == q.method = "GET" /\ q.path = "/health"

\* C8: GET /health is never answered 401, 403 or 429, and no step taken for
\* it changes the rate-limit store.
C8_HealthExempt ==
  /\ [](\A r \in Slots :
          IsHealth(req[r]) => (resp[r].status \notin {401, 403, 429} /\ ~Checked(r)))
  /\ [][\A r \in Slots :
          (pc'[r] # pc[r] /\ (IsHealth(req[r]) \/ IsHealth(req'[r]))) => store' = store]_vars

C8_Witness ==
  \E r \in Slots :
    /\ Answered(r) /\ IsHealth(req[r])
    /\ settings.API_KEYS # {}
    /\ ~req[r].key.present
    /\ resp[r].status = 200
    /\ \E c \in ClientIds : Len(store[c]) = Limit

\* C9: every request is logged with method and path on entry, before any
\* other stage has acted on it, and with the status of its response on the
\* way back, also when a stage short-circuited it.
C9_AccessLogCoversEveryRequest ==
  \A r \in Slots :
    /\ (pc[r] # Idle /\ pc[r] # At("Logging", "in")) =>
         /\ Len(accessLog[r]) >= 1
         /\ accessLog[r][1] = <<req[r].method, req[r].path>>
    /\ Answered(r) =>
         /\ Len(accessLog[r]) = 2
         /\ accessLog[r][2] = <<req[r].method, req[r].path, resp[r].status>>

C9_Witness ==
  \E r \in Slots :
    /\ Answered(r)
    /\ resp[r].status = 401
    /\ accessLog[r] = <<<<"POST", "/verify">>, <<"POST", "/verify", 401>>>>

\* C10 (as the spec states it): every successful POST /embedding returns a
\* vector of exactly EMBEDDING_DIM components, and dim equal to it.
C10_EmbeddingHasConfiguredDim ==
  \A r \in Slots :
    (Answered(r) /\ req[r].path = "/embedding" /\ req[r].method = "POST"
       /\ resp[r].status = 200) =>
      /\ resp[r].embLen = settings.EMBEDDING_DIM
      /\ resp[r].dim = settings.EMBEDDING_DIM

(***************************************************************************)
(* Properties of the face pipeline (Spec).                                 *)
(***************************************************************************)
IsEmbedding(q) == q.method = "POST" /\ q.path = "/embedding"
IsVerify(q) == q.method = "POST" /\ q.path = "/verify"
\* the try block of the route ran for the request of task r
Tried(r) == Answered(r) /\ rl[r].res = "admitted"

\* C11 (as the spec states it): an image that passes transport decoding and
\* the signature test but whose stream the image decoder cannot read makes
\* decode fail with a ValueError (InvalidInput), and POST /embedding answers
\* 400, never 500.
C11_CorruptImageIsClientError ==
  \A r \in Slots :
    (/\ Tried(r) /\ IsEmbedding(req[r])
     /\ decode_base64_image(body[r].data, "") = Return
     /\ body[r].pil # "")
    => /\ decode_base64_image(body[r].data, body[r].pil).exc = "ValueError"
       /\ resp[r].status = 400

(***************************************************************************)
(* Properties of the library functions (SpecCalls).                        *)
(***************************************************************************)
NonZero(v) == \E i \in DOMAIN v : v[i] # 0
IdenticalAt90 ==
  /\ Returned("verify_match")
  /\ call.args.a = call.args.b
  /\ call.args.threshold = 90

C13_VerifyChecksBothLengths ==
  \A r \in Slots :
    /\ (IsVerify(req[r]) /\ "similarity" \in steps[r]) =>
         /\ body[r].lenA = settings.EMBEDDING_DIM
         /\ body[r].lenB = settings.EMBEDDING_DIM
    /\ (Tried(r) /\ IsVerify(req[r])) =>
         LET dim == settings.EMBEDDING_DIM
             b == body[r]
         IN  /\ b.lenA # dim =>
                  /\ resp[r].status = 400
                  /\ resp[r].detail = "embedding_a must have EMBEDDING_DIM dimensions"
                  /\ resp[r].got = b.lenA
             /\ (b.lenA = dim /\ b.lenB # dim) =>
                  /\ resp[r].status = 400
                  /\ resp[r].detail = "embedding_b must have EMBEDDING_DIM dimensions"
                  /\ resp[r].got = b.lenB
             /\ (b.lenA = dim /\ b.lenB = dim) =>
                  /\ resp[r].status = 200
                  /\ "similarity" \in steps[r]

C13_Witness ==
  \E r \in Slots :
    /\ Tried(r) /\ IsVerify(req[r])
    /\ body[r].lenA = settings.EMBEDDING_DIM
    /\ body[r].lenB > settings.EMBEDDING_DIM
    /\ resp[r].status = 400
    /\ resp[r].got = body[r].lenB

\* C14: an image in which the detector finds no face fails with "No face
\* detected", one with more than MAX_FACES faces fails with "Multiple faces
\* detected", both answered 400 without the embedder being invoked; for any
\* other face count the embedder is invoked, on the one bounding box
\* detect_face returned.
C14_FaceCountDecides ==
  \A r \in Slots :
    /\ (IsEmbedding(req[r]) /\ "embed" \in steps[r]) =>
         (body[r].faces >= 1 /\ body[r].faces <= MAX_FACES)
    /\ (Tried(r) /\ IsEmbedding(req[r]) /\ "detect" \in steps[r]) =>
         /\ body[r].faces = 0 =>
              /\ resp[r].status = 400
              /\ resp[r].detail = "No face detected in image"
              /\ "embed" \notin steps[r]
         /\ body[r].faces > MAX_FACES =>
              /\ resp[r].status = 400
              /\ resp[r].detail = "Multiple faces detected"
              /\ "embed" \notin steps[r]
         /\ (body[r].faces >= 1 /\ body[r].faces <= MAX_FACES) =>
              /\ resp[r].status = 200
              /\ "embed" \in steps[r]

C14_Witness ==
  \E r \in Slots :
    /\ Tried(r) /\ IsEmbedding(req[r])
    /\ "detect" \in steps[r]
    /\ body[r].faces = MAX_FACES + 1
    /\ resp[r].status = 400
    /\ "embed" \notin steps[r]

\* the image string without its data-URL prefix, whitespace trimmed
Trimmed(image_data) ==
  Strip(IF Contains(image_data, ",") THEN AfterFirst(image_data, ",") ELSE image_data)

\* C15 (as the spec states it): decode strips the data-URL prefix, trims
\* whitespace and then rejects empty input: an input that is empty after
\* prefix stripping and trimming fails with "Empty image data", a malformed
\* transport encoding fails with "Invalid base64 encoding", and only a
\* well-formed, non-empty decoded stream with unrecognised leading bytes
\* fails with "Unsupported image format".
C15_DecodeValidationOrder ==
  Returned("decode_base64_image") =>
    LET trimmed == Trimmed(call.args.image_data)
        decoded == b64decode(trimmed)
    IN  /\ trimmed = <<>> => call.out = Raise("ValueError", "Empty image data")
        /\ (trimmed # <<>> /\ decoded.exc # "") =>
             call.out = Raise("ValueError", "Invalid base64 encoding")
        /\ call.out.msg = "Unsupported image format" =>
             /\ decoded.exc = ""
             /\ decoded.bytes # <<>>
             /\ \A m \in IMAGE_MAGIC_BYTES : ~StartsWith(decoded.bytes, m)

\* the messages of the client-caused failures the routes raise themselves
ClientFailureMessages ==
  {"Empty image data", "Invalid base64 encoding", "Unsupported image format",
   "No face detected in image", "Multiple faces detected",
   "embedding_a must have EMBEDDING_DIM dimensions",
   "embedding_b must have EMBEDDING_DIM dimensions"}
GenericMessages == {"Failed to process image", "Failed to verify face"}

\* C16 (as the spec states it): the detail of a 500 is a fixed generic
\* string whatever the exception was, and the detail of a 400 is always the
\* message of a client-caused domain failure, never the message of a
\* failure inside a library.
C16_ErrorDisclosure ==
  \A r \in Slots :
    Answered(r) =>
      /\ resp[r].status = 500 => resp[r].detail \in GenericMessages
      /\ resp[r].status = 400 => resp[r].detail \in ClientFailureMessages

\* C17 (as the spec states it): when Settings is constructed from an
\* environment for which startup succeeds, MAX_IMAGE_SIZE, MAX_IMAGE_WIDTH,
\* MAX_FACES, EMBEDDING_DIM and RATE_LIMIT_PER_MINUTE are positive and
\* SIMILARITY_THRESHOLD lies in [0, 1].
C17_SettingsInRange ==
  (Returned("Settings") /\ call.out.exc = "") =>
    /\ call.out.MAX_IMAGE_SIZE > 0
    /\ call.out.MAX_IMAGE_WIDTH > 0
    /\ call.out.MAX_FACES > 0
    /\ call.out.EMBEDDING_DIM > 0
    /\ call.out.RATE_LIMIT_PER_MINUTE > 0
    /\ call.out.SIMILARITY_THRESHOLD >= 0
    /\ call.out.SIMILARITY_THRESHOLD <= 100

\* C18 (as the spec states it): resize(image, max_width) returns the image
\* unchanged when its width is at most max_width; otherwise the result is
\* max_width wide and floor(height * max_width / width) high, and that
\* height is at least 1 for every image at least 1 high, so that resize
\* never fails.
C18_ResizeKeepsAValidHeight ==
  Returned("resize_image") =>
    LET image == call.args.image
        max_width == call.args.max_width
    IN  /\ call.out.exc = ""
        /\ image.width <= max_width => call.out.image = image
        /\ image.width > max_width =>
             /\ call.out.image.width = max_width
             /\ call.out.image.height = (image.height * max_width) \div image.width
             /\ call.out.image.height >= 1

(***************************************************************************)
(* Properties of the rate-limit store.                                     *)
(***************************************************************************)
\* w2 is w1 without a prefix of timestamps, all of them at most t
DropsUpTo(w1, w2, t) ==
  \E k \in 0..Len(w1) :
    /\ w2 = SubSeq(w1, k + 1, Len(w1))
    /\ \A i \in 1..k : w1[i] <= t

\* C19: right after a rate-limit check for identifier c at time now, the
\* window stored for c holds only timestamps strictly newer than now - 60
\* (one exactly 60 seconds old is gone), holds at most
\* RATE_LIMIT_PER_MINUTE of them, and after a rejected check is the old
\* window without its expired timestamps, nothing appended.
C19_WindowAfterCheck ==
  [][\A r \in Slots :
       (~Checked(r) /\ rl'[r].res # "none") =>
         LET c == rl'[r].cid
             now == clock
         IN  /\ \A i \in DOMAIN store'[c] : store'[c][i] > now - WINDOW_SECONDS
             /\ Len(store'[c]) <= Limit
             /\ rl'[r].res = "rejected" =>
                  DropsUpTo(store[c], store'[c], now - WINDOW_SECONDS)]_vars

C19_Witness ==
  \E r \in Slots :
    /\ rl[r].res = "rejected"
    /\ rl[r].at = clock
    /\ \E i \in DOMAIN admitted[rl[r].cid] : admitted[rl[r].cid][i] = clock - WINDOW_SECONDS
    /\ \A i \in DOMAIN store[rl[r].cid] : store[rl[r].cid][i] > clock - WINDOW_SECONDS
    /\ Len(store[rl[r].cid]) = Limit

\* a request that a stage before the handler has to reject
MustReject(q) ==
  \/ Oversized(q)
  \/ NeedsKey(q) /\ (KeyMissing(q) \/ KeyUnknown(q))
\* the request task r is serving during a step
Serving(r) == IF pc[r] = Idle THEN req'[r] ELSE req[r]

\* C20: a request rejected before the handler, with 401 or 403 by the
\* API-key stage or with 413 by the size guard, leaves the rate-limit store
\* as it was: no step taken for it records a timestamp or prunes a window,
\* and no rate-limit check is made for it.
C20_RejectedBeforeHandlerLeavesStore ==
  /\ [](\A r \in Slots :
          /\ resp[r].status \in {401, 403, 413} =>
               (~Checked(r) /\ "handler" \notin steps[r])
          /\ (Answered(r) /\ MustReject(req[r])) => resp[r].status \in {401, 403, 413})
  /\ [][\A r \in Slots :
          (pc'[r] # pc[r] /\ MustReject(Serving(r))) => store' = store]_vars

C20_Witness ==
  \E r \in Slots :
    /\ Answered(r)
    /\ resp[r].status \in {401, 403, 413}
    /\ \E c \in ClientIds : \E i \in DOMAIN store[c] : store[c][i] <= clock - WINDOW_SECONDS

\* the clock readings from now on
Future == {clock + k * d : k \in 0..MaxTicks, d \in TickSteps}
\* whether a check for identifier c at time t would admit, given the store
WouldAdmit(st, c, t) == check_rate_limit(st, c, t, Limit).ok

\* C21: a rate-limit check made for a request under identifier c changes
\* only c's window: the window of every other identifier, and what a check
\* for it would decide at any later time, stay as they were; and the
\* identifier of a request that carries a key is never the identifier of a
\* request known by its address, so neither touches the other's window.
C21_ClientIsolation ==
  /\ [](\A r \in Slots :
          pc[r] # Idle =>
            \A q \in IsolationRequests :
              Truthy(q.key) # Truthy(req[r].key) =>
                get_client_id(q) # get_client_id(req[r]))
  /\ [][\A r \in Slots :
          (~Checked(r) /\ rl'[r].res # "none") =>
            /\ \A c \in ClientIds \ {get_client_id(req[r])} :
                 /\ store'[c] = store[c]
                 /\ \A t \in Future : WouldAdmit(store', c, t) = WouldAdmit(store, c, t)
            /\ \A q \in IsolationRequests :
                 Truthy(q.key) # Truthy(req[r].key) =>
                   store'[get_client_id(q)] = store[get_client_id(q)]]_vars

C21_Witness ==
  \E r \in Slots :
    /\ req[r].key = Header(KeyH)
    /\ rl[r].res = "rejected"
    /\ rl[r].cid = <<"k", "e", "y", ":", "h", "1">>
    /\ store[<<"i", "p", ":", "h", "1">>] # <<>>
    /\ store[<<"i", "p", ":", "h", "1">>] # store[rl[r].cid]

\* the handler of task r was admitted and then failed
Failed(r) == rl[r].res = "admitted" /\ resp[r].status \in {400, 500}

\* C22: a request the rate limiter admitted keeps its slot when its handler
\* then fails with 400 or 500: the step that fails it leaves the recorded
\* timestamp in the window, no later step of the request removes it, and a
\* check made while it is inside the window counts it like any other.
C22_FailedRequestKeepsItsSlot ==
  /\ [](\A r \in Slots :
          (Failed(r) /\ clock - rl[r].at < WINDOW_SECONDS) =>
            /\ Occurrences(store[rl[r].cid], rl[r].at) >= 1
            /\ \A r2 \in Slots \ {r} :
                 (Checked(r2) /\ rl[r2].cid = rl[r].cid /\ rl[r2].at > rl[r].at) =>
                   /\ rl[r2].seen >= 1
                   /\ Limit = 1 => rl[r2].res = "rejected")
  /\ [][\A r \in Slots :
          (Failed(r) /\ pc'[r] # pc[r]) =>
            Occurrences(store'[rl[r].cid], rl[r].at) = Occurrences(store[rl[r].cid], rl[r].at)]_vars

C22_Witness ==
  \E r \in Slots : \E r2 \in Slots \ {r} :
    /\ Answered(r) /\ Failed(r)
    /\ Limit = 1
    /\ rl[r2].res = "rejected"
    /\ rl[r2].cid = rl[r].cid
    /\ rl[r2].at > rl[r].at
    /\ resp[r2].status = 429

====
